---------------------------- MODULE Spec2Model ----------------------------
(***************************************************************************)
(* The deep-query pipeline of panako.py (Panako.deep_query and the helpers *)
(* it calls: _get_audio_duration, _segment_audio, _run_command,            *)
(* _parse_query_output) as a state machine.                                *)
(*                                                                         *)
(* Time is in whole seconds.  One behaviour is one invocation of           *)
(* deep_query; the external tools (ffprobe, ffmpeg, the Panako engine) are *)
(* nondeterministic: every call draws its outcome from the outcomes the    *)
(* code distinguishes.                                                     *)
(***************************************************************************)
EXTENDS Integers, Sequences, FiniteSets, TLC

VARIABLES
    pc,              \* position inside deep_query
    fileDuration,    \* the real duration of query_file (what ffprobe reports)
    segment_length,  \* argument of deep_query
    overlap,         \* argument of deep_query
    min_segments,    \* argument of deep_query
    duration,        \* what the last _get_audio_duration call returned
    start,           \* local of _segment_audio
    segment_num,     \* local of _segment_audio
    segments,        \* list of (segment_num, start, end) built by _segment_audio
    scratch,         \* clip numbers present in the TemporaryDirectory
    qi,              \* number of segments already queried by the for loop
    all_matches,     \* the defaultdict, in insertion order
    ret,             \* how deep_query ended: "pending", "None", "list", "raised"
    results,         \* the list returned when ret = "list"
    extractLog,      \* history: start and success of every ffmpeg call
    queryLog,        \* history: per queried segment, success and records
    parserPc,        \* position of a direct _parse_query_output call
    parserInput,     \* the `output` text handed to _parse_query_output
    parserResult,    \* the `matches` list it returned
    earlier,         \* what an earlier deep_query call on the object ended with
    manifest,        \* the lines of MANIFEST_FILE
    storePc,         \* position inside store
    storePath,       \* argument of store, resolved
    storeForce,      \* argument of store
    audio_files,     \* the files store has still to hand to the engine
    storeBefore,     \* history: the manifest when store was called
    storeLog,        \* history: the engine invocations of the store call
    storeCalls       \* history: number of store calls made

parserVars == <<parserPc, parserInput, parserResult>>

storeVars == <<manifest, storePc, storePath, storeForce, audio_files,
               storeBefore, storeLog, storeCalls>>

(* The state outside the deep_query call under way.                        *)
aux == <<parserVars, earlier, storeVars>>

deepQueryVars ==
    <<pc, fileDuration, segment_length, overlap, min_segments, duration,
      start, segment_num, segments, scratch, qi, all_matches, ret,
      results, extractLog, queryLog>>

vars == <<deepQueryVars, aux>>

-----------------------------------------------------------------------------
(* Bounds of the model.  MaxWindows bounds the loop iterations of the       *)
(* segmenter through the inputs Init draws; MaxRecords bounds the records  *)
(* the engine reports over one invocation.                                 *)

MaxDuration == 9
MaxSegLen == 4
MaxWindows == 4
MaxRecords == 3

(* Lines of the text handed to a direct _parse_query_output call.          *)
MaxParseLines == 2

(* The scores the engine reports, and the min_segments arguments.          *)
Scores == {1, 2}

MinSegmentsChoices == {1, 2}

(* Program constants *)

MinWindow == 3

(* None, as returned by _get_audio_duration *)
NoDuration == -1

-----------------------------------------------------------------------------
(* Small helpers *)

Min(a, b) == IF a <= b THEN a ELSE b

Max(a, b) == IF a >= b THEN a ELSE b

RECURSIVE SumSeq(_)
SumSeq(s) == IF s = <<>> THEN 0 ELSE Head(s) + SumSeq(Tail(s))

-----------------------------------------------------------------------------
(* Paths are sequences of name pieces, so that the substring tests of the  *)
(* parser are tests on the pieces.                                         *)

PathA == <<"/music/", "a.wav">>

PathB == <<"/music/", "b.wav">>

ClipPath(n) == <<"/tmp", "/panako_deep_", "x/", "segment_", ToString(n)>>

Contains(path, piece) == \E i \in 1..Len(path) : path[i] = piece

-----------------------------------------------------------------------------
(* Engine output: a line is the list of its ';'-separated, stripped        *)
(* fields, abstracted to what the parser reads of it.                      *)
(*   lead   : "digit" when line[0].isdigit(), else "other"                 *)
(*   nparts : len(parts)                                                   *)
(*   qpath, mpath : parts[2], parts[5]                                     *)
(*   score  : parts[9], ok = int() accepts it                              *)
(*   mstart, mstop : parts[7], parts[8]; kind "blank", "num" or "bad"      *)

NumField(v) == [kind |-> "num", v |-> v]

BlankField == [kind |-> "blank", v |-> 0]

BadField == [kind |-> "bad", v |-> 0]

DataLine(q, m, sc) ==
    [lead |-> "digit", nparts |-> 13, qpath |-> q, mpath |-> m,
     score |-> NumField(sc), mstart |-> NumField(0), mstop |-> NumField(0)]

HeaderLine ==
    [lead |-> "other", nparts |-> 13, qpath |-> <<"Query path">>,
     mpath |-> <<"Match path">>, score |-> BadField,
     mstart |-> BadField, mstop |-> BadField]

FloatOf(f) == IF f.kind = "num" THEN f.v ELSE 0

LineParses(l) ==
    /\ l.lead = "digit"
    /\ l.nparts >= 10
    /\ l.score.kind = "num"

LineKept(l) ==
    /\ LineParses(l)
    /\ l.qpath # l.mpath
    /\ ~(Contains(l.mpath, "/panako_deep_") \/ Contains(l.mpath, "segment_"))
    /\ l.mstart.kind # "bad"
    /\ l.mstop.kind # "bad"

MatchOf(l) ==
    [path |-> l.mpath, score |-> l.score.v,
     match_start |-> FloatOf(l.mstart), match_stop |-> FloatOf(l.mstop)]

RECURSIVE ParseQueryOutput(_)
ParseQueryOutput(output) ==
    IF output = <<>> THEN <<>>
    ELSE LET l == Head(output)
             rest == ParseQueryOutput(Tail(output))
         IN  IF LineKept(l) THEN <<MatchOf(l)>> \o rest ELSE rest

(* The exception the try block raises on a line: int(parts[9]) comes       *)
(* first, the two `continue` filters next, float(parts[7]) and             *)
(* float(parts[8]) last.  Lines that miss the digit or the ten parts never *)
(* enter the try block.                                                    *)
LineRaises(l) ==
    IF l.lead # "digit" \/ l.nparts < 10 THEN "none"
    ELSE IF l.score.kind # "num" THEN "ValueError"
    ELSE IF l.qpath = l.mpath THEN "none"
    ELSE IF Contains(l.mpath, "/panako_deep_") \/ Contains(l.mpath, "segment_")
         THEN "none"
    ELSE IF l.mstart.kind = "bad" \/ l.mstop.kind = "bad" THEN "ValueError"
    ELSE "none"

(* Variant: the handler names IndexError only.                             *)
CaughtByParser_IndexErrorOnly == {"IndexError"}

(* except (ValueError, IndexError): continue                               *)
CaughtByParser == {"ValueError", "IndexError"}

(* Some line raises an exception the handler does not name.                *)
ParserEscapes(output) ==
    \E i \in 1..Len(output) :
        LineRaises(output[i]) \notin ({"none"} \cup CaughtByParser)

-----------------------------------------------------------------------------
(* Segmenter arithmetic (_segment_audio)                                   *)

Step == segment_length - overlap

(* Variant: the end is not clamped to the duration.                        *)
WindowEnd_Unclamped(st, dur) == st + segment_length

(* end = min(start + segment_length, duration)                             *)
WindowEnd(st, dur) == Min(st + segment_length, dur)

(* Variant: the loop without the test for a short final segment.           *)
LoopContinues_NoShortCheck(st, dur) == st < dur

(* Variant: the body runs once before the condition is tested.            *)
LoopContinues_DoWhile(st, dur) ==
    st = 0 \/ (st < dur /\ WindowEnd(st, dur) - st >= MinWindow)

(* while start < duration, up to the break for a short final segment       *)
LoopContinues(st, dur) == st < dur /\ WindowEnd(st, dur) - st >= MinWindow

(* Number of loop iterations _segment_audio makes for a duration, a        *)
(* segment length and an overlap with a positive step.                     *)
RECURSIVE IterationsFrom(_, _, _, _)
IterationsFrom(st, dur, len, ov) ==
    IF st < dur /\ Min(st + len, dur) - st >= MinWindow
    THEN 1 + IterationsFrom(st + (len - ov), dur, len, ov)
    ELSE 0

-----------------------------------------------------------------------------
(* Aggregator (the loop body over matches in deep_query)                   *)

NewEntry(path) == [path |-> path, count |-> 0, segments |-> <<>>, total_score |-> 0]

IndexOf(am, path) ==
    IF \E i \in 1..Len(am) : am[i].path = path
    THEN CHOOSE i \in 1..Len(am) : am[i].path = path
    ELSE 0

(* Variant: the count is raised for the first hit only.                    *)
CountAfterHit_FirstOnly(c) == IF c = 0 THEN 1 ELSE c

(* all_matches[path]['count'] += 1                                         *)
CountAfterHit(c) == c + 1

ScoreAfterHit(t, score) == t + score

AddMatch(am, m, st, en) ==
    LET am1 == IF IndexOf(am, m.path) = 0 THEN Append(am, NewEntry(m.path)) ELSE am
        i == IndexOf(am1, m.path)
        hit == [start |-> st, end |-> en, score |-> m.score]
    IN  [am1 EXCEPT ![i] = [path |-> @.path,
                            count |-> CountAfterHit(@.count),
                            segments |-> Append(@.segments, hit),
                            total_score |-> ScoreAfterHit(@.total_score, m.score)]]

(* Variant: a candidate counts once per window.                            *)
RECURSIVE AddMatches_OncePerWindow(_, _, _, _)
AddMatches_OncePerWindow(am, matches, st, en) ==
    IF matches = <<>> THEN am
    ELSE AddMatches_OncePerWindow(
             AddMatch(am, Head(matches), st, en),
             SelectSeq(Tail(matches), LAMBDA x : x.path # Head(matches).path),
             st, en)

RECURSIVE AddMatches(_, _, _, _)
AddMatches(am, matches, st, en) ==
    IF matches = <<>> THEN am
    ELSE AddMatches(AddMatch(am, Head(matches), st, en), Tail(matches), st, en)

-----------------------------------------------------------------------------
(* Interval merger                                                         *)

(* sorted(data['segments'], key=lambda x: x['start']): stable, ascending   *)
RECURSIVE InsertByStart(_, _)
InsertByStart(sorted, x) ==
    IF sorted = <<>> THEN <<x>>
    ELSE IF Head(sorted).start <= x.start
         THEN <<Head(sorted)>> \o InsertByStart(Tail(sorted), x)
         ELSE <<x>> \o sorted

RECURSIVE SortByStart(_)
SortByStart(s) ==
    IF s = <<>> THEN <<>>
    ELSE InsertByStart(SortByStart(SubSeq(s, 1, Len(s) - 1)), s[Len(s)])

(* Variants: a strict comparison; the overlap tolerance left out.          *)
Joins_Strict(seg, last, ov) == seg.start < last[2] + ov

Joins_NoTolerance(seg, last, ov) == seg.start <= last[2]

(* Variant: the tolerance is twice the overlap.                            *)
Joins_DoubleTolerance(seg, last, ov) == seg.start <= last[2] + 2 * ov

Joins(seg, last, ov) == seg.start <= last[2] + ov

RECURSIVE MergeInto(_, _, _)
MergeInto(time_ranges, segs, ov) ==
    IF segs = <<>> THEN time_ranges
    ELSE LET seg == Head(segs)
             n == Len(time_ranges)
         IN  IF n > 0 /\ Joins(seg, time_ranges[n], ov)
             THEN MergeInto([time_ranges EXCEPT ![n] = <<@[1], Max(@[2], seg.end)>>],
                            Tail(segs), ov)
             ELSE MergeInto(Append(time_ranges, <<seg.start, seg.end>>), Tail(segs), ov)

TimeRanges(segs, ov) == MergeInto(<<>>, SortByStart(segs), ov)

-----------------------------------------------------------------------------
(* Ranker                                                                  *)

(* Variant: the threshold off by one.                                      *)
PassesFilter_OffByOne(data, minseg) == data.count + 1 >= minseg

PassesFilter(data, minseg) == data.count >= minseg

Percentage(count, total) == [num |-> count * 100, den |-> total]

ResultOf(data, total, ov) ==
    [path |-> data.path,
     segment_count |-> data.count,
     total_segments |-> total,
     percentage |-> Percentage(data.count, total),
     total_score |-> data.total_score,
     time_ranges |-> TimeRanges(data.segments, ov)]

RECURSIVE FilterResults(_, _, _, _)
FilterResults(am, minseg, total, ov) ==
    IF am = <<>> THEN <<>>
    ELSE LET rest == FilterResults(Tail(am), minseg, total, ov)
         IN  IF PassesFilter(Head(am), minseg)
             THEN <<ResultOf(Head(am), total, ov)>> \o rest
             ELSE rest

(* key=lambda x: (x['segment_count'], x['total_score']) compared as tuples *)
KeyLess(a, b) ==
    \/ a.segment_count < b.segment_count
    \/ a.segment_count = b.segment_count /\ a.total_score < b.total_score

(* Variant: x goes before the first element whose key is not larger, so    *)
(* equal keys end up in reverse order.                                     *)
RECURSIVE InsertDesc_Unstable(_, _)
InsertDesc_Unstable(sorted, x) ==
    IF sorted = <<>> THEN <<x>>
    ELSE IF ~KeyLess(x, Head(sorted))
         THEN <<x>> \o sorted
         ELSE <<Head(sorted)>> \o InsertDesc_Unstable(Tail(sorted), x)

(* list.sort(reverse=True) is stable: x goes before the first element      *)
(* whose key is smaller, after every element with a key at least as large. *)
RECURSIVE InsertDesc(_, _)
InsertDesc(sorted, x) ==
    IF sorted = <<>> THEN <<x>>
    ELSE IF KeyLess(Head(sorted), x)
         THEN <<x>> \o sorted
         ELSE <<Head(sorted)>> \o InsertDesc(Tail(sorted), x)

RECURSIVE SortResults(_)
SortResults(s) ==
    IF s = <<>> THEN <<>>
    ELSE InsertDesc(SortResults(SubSeq(s, 1, Len(s) - 1)), s[Len(s)])

RankedResults(am, minseg, total, ov) == SortResults(FilterResults(am, minseg, total, ov))

-----------------------------------------------------------------------------
(* Outcomes of the external calls, as the code tells them apart            *)

(* _get_audio_duration: a float, or None on a non-zero status, empty or    *)
(* unparsable output, a timeout or a missing ffprobe.                      *)
ProbeOutcomes == {"ok", "failed"}

GetAudioDuration(o, d) == IF o = "ok" THEN d ELSE NoDuration

(* ffmpeg in _segment_audio: "ok" = status 0 and the clip exists;          *)
(* "nonzero" = non-zero status or no clip; "timeout" = TimeoutExpired      *)
(* (caught); "notfound" = FileNotFoundError (not caught there).            *)
ExtractOutcomes == {"ok", "nonzero", "timeout", "notfound"}

(* _run_command('query', ...): "ok" = a CompletedProcess; "nonzero" =      *)
(* CalledProcessError -> None; "notfound" = FileNotFoundError -> None;     *)
(* "hang" = the engine never exits (subprocess.run is given no timeout).   *)
RunOutcomes == {"ok", "nonzero", "notfound", "hang"}

(* Exceptions of other kinds (for instance PermissionError) are outside    *)
(* the model.  self.java_cmd is taken to be set: with None, _run_command   *)
(* returns None as for "notfound".                                         *)

(* The texts the engine may print for a clip: nothing, or a header and    *)
(* data lines: matches of the two library files (one file once or twice,  *)
(* both files in either order) and the clip matching itself.              *)
EngineOutputs(clip) ==
    LET A(sc) == DataLine(clip, PathA, sc)
        B == DataLine(clip, PathB, 1)
        Self == DataLine(clip, clip, 1)
    IN  {<<>>, <<HeaderLine>>, <<HeaderLine, Self>>, <<HeaderLine, B>>,
         <<HeaderLine, Self, B>>, <<HeaderLine, A(1), B>>, <<HeaderLine, B, A(1)>>}
          \cup {<<HeaderLine, A(sc)>> : sc \in Scores}
          \cup {<<HeaderLine, A(sc), A(1)>> : sc \in Scores}

RecordsSoFar == SumSeq([i \in 1..Len(queryLog) |-> Len(queryLog[i].matches)])

-----------------------------------------------------------------------------
(* The state machine                                                       *)

(* The arguments satisfy 0 <= overlap < segment_length.                    *)
(* No _parse_query_output call of its own is under way.                    *)
ParserIdle ==
    /\ parserPc = "idle"
    /\ parserInput = <<>>
    /\ parserResult = <<>>

(* What `earlier` holds during the first deep_query call.                  *)
NoEarlier ==
    [ret |-> "pending", segments |-> <<>>, queryLog |-> <<>>, results |-> <<>>]

(* No store call has been made; the manifest is empty.                     *)
StoreIdle ==
    /\ manifest = <<>>
    /\ storePc = "idle"
    /\ storePath = <<>>
    /\ storeForce = FALSE
    /\ audio_files = <<>>
    /\ storeBefore = <<>>
    /\ storeLog = <<>>
    /\ storeCalls = 0

Init ==
    /\ pc = "start"
    /\ fileDuration \in 0..MaxDuration
    /\ segment_length \in 1..MaxSegLen
    /\ overlap \in 0..(MaxSegLen - 1)
    /\ overlap < segment_length
    /\ IterationsFrom(0, fileDuration, segment_length, overlap) <= MaxWindows
    /\ min_segments \in MinSegmentsChoices
    /\ duration = NoDuration
    /\ start = 0
    /\ segment_num = 0
    /\ segments = <<>>
    /\ scratch = {}
    /\ qi = 0
    /\ all_matches = <<>>
    /\ ret = "pending"
    /\ results = <<>>
    /\ extractLog = <<>>
    /\ queryLog = <<>>
    /\ ParserIdle
    /\ earlier = NoEarlier
    /\ StoreIdle

(* Variant: the directory is left as it is.                                *)
TempDirExit_Leak(files) == files

(* tempfile.TemporaryDirectory.__exit__: the directory and all in it go    *)
TempDirExit(files) == {}

(* Variant: no test for an empty segment list.                             *)
ReturnFor_AlwaysList(segs) == "list"

(* if not segments: return None; else the queries run and a list returns   *)
ReturnFor(segs) == IF segs = <<>> THEN "None" ELSE "list"

(* return None before the with block is entered                            *)
ReturnNoneEarly ==
    /\ pc' = "done"
    /\ ret' = "None"
    /\ UNCHANGED <<aux, fileDuration, segment_length, overlap, min_segments, duration,
                   start, segment_num, segments, scratch, qi, all_matches,
                   results, extractLog, queryLog>>

(* if not query_file.exists(): return None                                 *)
CheckQueryFile ==
    /\ pc = "start"
    /\ \E exists \in BOOLEAN :
         IF exists
         THEN /\ pc' = "ffprobe_version"
              /\ UNCHANGED <<aux, fileDuration, segment_length, overlap, min_segments,
                             duration, start, segment_num, segments, scratch, qi,
                             all_matches, ret, results, extractLog, queryLog>>
         ELSE ReturnNoneEarly

(* subprocess.run(['ffprobe', '-version'], timeout=5)                      *)
CheckFfprobe ==
    /\ pc = "ffprobe_version"
    /\ \E found \in BOOLEAN :
         IF found
         THEN /\ pc' = "probe"
              /\ UNCHANGED <<aux, fileDuration, segment_length, overlap, min_segments,
                             duration, start, segment_num, segments, scratch, qi,
                             all_matches, ret, results, extractLog, queryLog>>
         ELSE ReturnNoneEarly

(* duration = self._get_audio_duration(query_file); None -> return None    *)
ProbeDuration ==
    /\ pc = "probe"
    /\ \E o \in ProbeOutcomes :
         /\ duration' = GetAudioDuration(o, fileDuration)
         /\ IF duration' = NoDuration
            THEN pc' = "done" /\ ret' = "None"
            ELSE pc' = "tempdir" /\ UNCHANGED ret
    /\ UNCHANGED <<aux, fileDuration, segment_length, overlap, min_segments, start,
                   segment_num, segments, scratch, qi, all_matches, results,
                   extractLog, queryLog>>

(* with TemporaryDirectory(...): segments = self._segment_audio(...), up   *)
(* to the while loop; a failed second probe makes it return [] and         *)
(* deep_query return None.                                                 *)
EnterSegmenter ==
    /\ pc = "tempdir"
    /\ \E o \in ProbeOutcomes :
         /\ duration' = GetAudioDuration(o, fileDuration)
         /\ IF duration' = NoDuration
            THEN /\ pc' = "done"
                 /\ ret' = ReturnFor(<<>>)
                 /\ scratch' = TempDirExit(scratch)
                 /\ UNCHANGED <<start, segment_num, segments>>
            ELSE /\ pc' = "segment"
                 /\ start' = 0
                 /\ segment_num' = 0
                 /\ segments' = <<>>
                 /\ UNCHANGED <<scratch, ret>>
    /\ UNCHANGED <<aux, fileDuration, segment_length, overlap, min_segments, qi,
                   all_matches, results, extractLog, queryLog>>

(* What one ffmpeg call leaves of segment_NNNN.wav in the directory        *)
ClipsAfter(files, n, o, partial) ==
    CASE o = "ok" -> files \cup {n}
      [] o = "timeout" /\ partial -> files \cup {n}
      [] OTHER -> files

SegmentsAfter(segs, n, st, en, o) ==
    IF o = "ok" THEN Append(segs, <<n, st, en>>) ELSE segs

(* Variant: the start advanced by the segment length.                      *)
NextStart_NoOverlap(st) == st + segment_length

(* Variant: the loop advances by one second.                               *)
NextStart_OneSecond(st) == st + 1

(* start += step                                                           *)
NextStart(st) == st + Step

(* One iteration of the while loop of _segment_audio                       *)
ExtractSegment ==
    /\ pc = "segment"
    /\ LoopContinues(start, duration)
    /\ \E o \in ExtractOutcomes, partial \in BOOLEAN :
         /\ (partial => o = "timeout")
         /\ extractLog' = Append(extractLog, [start |-> start, ok |-> (o = "ok")])
         /\ IF o = "notfound"
            THEN /\ pc' = "done"
                 /\ ret' = "raised"
                 /\ scratch' = TempDirExit(scratch)
                 /\ UNCHANGED <<start, segment_num, segments>>
            ELSE /\ segments' = SegmentsAfter(segments, segment_num, start,
                                              WindowEnd(start, duration), o)
                 /\ segment_num' = IF o = "ok" THEN segment_num + 1 ELSE segment_num
                 /\ scratch' = ClipsAfter(scratch, segment_num, o, partial)
                 /\ start' = NextStart(start)
                 /\ UNCHANGED <<pc, ret>>
    /\ UNCHANGED <<aux, fileDuration, segment_length, overlap, min_segments, duration,
                   qi, all_matches, results, queryLog>>

(* Variant: the segmenter hands its windows over while its loop could     *)
(* still extract the next one.                                             *)
SegmenterReturns_BeforeLoopEnds ==
    /\ pc = "segment"
    /\ segments # <<>>
    /\ pc' = "query"
    /\ qi' = 0
    /\ all_matches' = <<>>
    /\ UNCHANGED <<aux, fileDuration, segment_length, overlap, min_segments,
                   duration, start, segment_num, segments, scratch, ret,
                   results, extractLog, queryLog>>

(* Variant: the candidate map is not created anew.                         *)
SegmenterReturns_KeepsMap ==
    /\ pc = "segment"
    /\ ~LoopContinues(start, duration)
    /\ IF ReturnFor(segments) = "None"
       THEN /\ pc' = "done"
            /\ ret' = "None"
            /\ scratch' = TempDirExit(scratch)
            /\ UNCHANGED qi
       ELSE /\ pc' = "query"
            /\ qi' = 0
            /\ UNCHANGED <<ret, scratch>>
    /\ UNCHANGED <<aux, fileDuration, segment_length, overlap, min_segments,
                   duration, start, segment_num, segments, results, extractLog,
                   queryLog, all_matches>>

(* The while loop of _segment_audio ends and deep_query tests `segments`   *)
SegmenterReturns ==
    /\ pc = "segment"
    /\ ~LoopContinues(start, duration)
    /\ IF ReturnFor(segments) = "None"
       THEN /\ pc' = "done"
            /\ ret' = "None"
            /\ scratch' = TempDirExit(scratch)
            /\ UNCHANGED <<qi, all_matches>>
       ELSE /\ pc' = "query"
            /\ qi' = 0
            /\ all_matches' = <<>>
            /\ UNCHANGED <<ret, scratch>>
    /\ UNCHANGED <<aux, fileDuration, segment_length, overlap, min_segments, duration,
                   start, segment_num, segments, results, extractLog, queryLog>>

(* result = self._run_command('query', ...); `result and result.stdout`    *)
(* guards the parse, so a None result or an empty stdout gives no match.   *)
MatchesOf(o, stdout) == IF o = "ok" THEN ParseQueryOutput(stdout) ELSE <<>>

(* One iteration of the for loop over segments, the engine printing one   *)
(* of `outputs`.                                                           *)
QuerySegmentFrom(outputs) ==
    /\ pc = "query"
    /\ qi < Len(segments)
    /\ LET seg == segments[qi + 1] IN
       \E o \in RunOutcomes, stdout \in outputs :
         /\ (o # "ok" => stdout = <<>>)
         /\ IF o = "hang"
            THEN /\ pc' = "blocked"
                 /\ UNCHANGED <<qi, all_matches, queryLog>>
            ELSE LET matches == MatchesOf(o, stdout) IN
                 /\ RecordsSoFar + Len(matches) <= MaxRecords
                 /\ all_matches' = AddMatches(all_matches, matches, seg[2], seg[3])
                 /\ queryLog' = Append(queryLog, [ok |-> (o = "ok"), matches |-> matches])
                 /\ qi' = qi + 1
                 /\ UNCHANGED pc
    /\ UNCHANGED <<aux, fileDuration, segment_length, overlap, min_segments, duration,
                   start, segment_num, segments, scratch, ret, results, extractLog>>

QuerySegment ==
    /\ pc = "query"
    /\ qi < Len(segments)
    /\ QuerySegmentFrom(EngineOutputs(ClipPath(segments[qi + 1][1])))

(* Filter, merge, sort, return results; the with block is left             *)
Rank ==
    /\ pc = "query"
    /\ qi = Len(segments)
    /\ results' = RankedResults(all_matches, min_segments, Len(segments), overlap)
    /\ ret' = "list"
    /\ scratch' = TempDirExit(scratch)
    /\ pc' = "done"
    /\ UNCHANGED <<aux, fileDuration, segment_length, overlap, min_segments, duration,
                   start, segment_num, segments, qi, all_matches, extractLog,
                   queryLog>>

Next ==
    \/ CheckQueryFile
    \/ CheckFfprobe
    \/ ProbeDuration
    \/ EnterSegmenter
    \/ ExtractSegment
    \/ SegmenterReturns
    \/ QuerySegment
    \/ Rank

Spec == Init /\ [][Next]_vars

(* The interpreter goes on with the segmenter loop as long as it has a     *)
(* step to take: an extraction returns, times out or fails to start, and   *)
(* the loop test is then evaluated again.                                  *)
FairSpec ==
    /\ Init
    /\ [][Next]_vars
    /\ WF_vars(ExtractSegment)
    /\ WF_vars(SegmenterReturns)

(* No deep_query call is under way.                                        *)
DeepQueryIdle ==
    /\ pc = "idle"
    /\ fileDuration = 0
    /\ segment_length = 1
    /\ overlap = 0
    /\ min_segments = 1
    /\ duration = NoDuration
    /\ start = 0
    /\ segment_num = 0
    /\ segments = <<>>
    /\ scratch = {}
    /\ qi = 0
    /\ all_matches = <<>>
    /\ ret = "pending"
    /\ results = <<>>
    /\ extractLog = <<>>
    /\ queryLog = <<>>
    /\ earlier = NoEarlier

-----------------------------------------------------------------------------
(* deep_query on a 40-second file with the default segment_length 15 and   *)
(* overlap 2, the engine reporting for a window nothing or one record of   *)
(* a.wav with a score of 10, 8 or 12.                                      *)

ScenarioScores == <<10, 8, 12>>

ScenarioInit ==
    /\ pc = "start"
    /\ fileDuration = 40
    /\ segment_length = 15
    /\ overlap = 2
    /\ min_segments \in MinSegmentsChoices
    /\ duration = NoDuration
    /\ start = 0
    /\ segment_num = 0
    /\ segments = <<>>
    /\ scratch = {}
    /\ qi = 0
    /\ all_matches = <<>>
    /\ ret = "pending"
    /\ results = <<>>
    /\ extractLog = <<>>
    /\ queryLog = <<>>
    /\ ParserIdle
    /\ earlier = NoEarlier
    /\ StoreIdle

ScenarioOutputs(clip) ==
    {<<>>} \cup {<<HeaderLine, DataLine(clip, PathA, ScenarioScores[k])>> :
                    k \in 1..Len(ScenarioScores)}

ScenarioQuerySegment ==
    /\ pc = "query"
    /\ qi < Len(segments)
    /\ QuerySegmentFrom(ScenarioOutputs(ClipPath(segments[qi + 1][1])))

ScenarioNext ==
    \/ CheckQueryFile
    \/ CheckFfprobe
    \/ ProbeDuration
    \/ EnterSegmenter
    \/ ExtractSegment
    \/ SegmenterReturns
    \/ ScenarioQuerySegment
    \/ Rank

ScenarioSpec == ScenarioInit /\ [][ScenarioNext]_vars

-----------------------------------------------------------------------------
(* deep_query called a second time on the same object, for the same file   *)
(* and with the same arguments: a 6-second file in windows of 3 seconds.   *)

RepeatInit ==
    /\ Init
    /\ fileDuration = 6
    /\ segment_length = 3
    /\ overlap = 0

(* The first call has ended and deep_query is called again.  The locals of *)
(* the new call hold nothing the code could rely on until it assigns them, *)
(* so they are left as the first call left them; the histories start anew. *)
CallAgain ==
    /\ pc = "done"
    /\ earlier = NoEarlier
    /\ earlier' = [ret |-> ret, segments |-> segments, queryLog |-> queryLog,
                   results |-> results]
    /\ pc' = "start"
    /\ ret' = "pending"
    /\ results' = <<>>
    /\ scratch' = {}
    /\ extractLog' = <<>>
    /\ queryLog' = <<>>
    /\ UNCHANGED <<parserVars, storeVars, fileDuration,
                   segment_length, overlap, min_segments, duration, start,
                   segment_num, segments, qi, all_matches>>

RepeatNext ==
    \/ CheckQueryFile
    \/ CheckFfprobe
    \/ ProbeDuration
    \/ EnterSegmenter
    \/ ExtractSegment
    \/ SegmenterReturns
    \/ QuerySegment
    \/ Rank
    \/ CallAgain

RepeatSpec == RepeatInit /\ [][RepeatNext]_vars

-----------------------------------------------------------------------------
(* store(path, force) and the manifest of indexed files.  The file system  *)
(* holds a.wav and b.wav in /music/ and an empty directory; the manifest   *)
(* is the sequence of the lines of MANIFEST_FILE.                          *)

MaxStoreCalls == 3

DirMusic == <<"/music/">>

DirEmpty == <<"/empty/">>

PathMissing == <<"/music/", "gone.wav">>

StorePaths == {PathA, PathB, DirMusic, DirEmpty, PathMissing}

(* path.is_file(), path.is_dir()                                           *)
KindOf(path) ==
    IF path \in {PathA, PathB} THEN "file"
    ELSE IF path \in {DirMusic, DirEmpty} THEN "dir"
    ELSE "missing"

(* sorted(path.rglob("*" + ext) for the audio extensions)                  *)
AudioFilesIn(path) == IF path = DirMusic THEN <<PathA, PathB>> ELSE <<>>

(* _load_manifest: the set of the lines                                    *)
LoadManifest(lines) == {lines[i] : i \in 1..Len(lines)}

(* Variant: an indexed file is skipped whatever `force` says.              *)
SkipsFile_IgnoresForce(path, indexed, force) == path \in indexed

(* if str(path) in indexed and not force: return                           *)
SkipsFile(path, indexed, force) == path \in indexed /\ ~force

(* if not force: new_files = [f for f in audio_files if f not in indexed]  *)
RECURSIVE NewFiles(_, _, _)
NewFiles(files, indexed, force) ==
    IF files = <<>> THEN <<>>
    ELSE LET rest == NewFiles(Tail(files), indexed, force)
         IN  IF force \/ Head(files) \notin indexed
             THEN <<Head(files)>> \o rest
             ELSE rest

(* The files a store call hands to the engine, in order.                   *)
FilesToStore(path, indexed, force) ==
    IF KindOf(path) = "file"
    THEN IF SkipsFile(path, indexed, force) THEN <<>> ELSE <<path>>
    ELSE IF KindOf(path) = "dir"
         THEN NewFiles(AudioFilesIn(path), indexed, force)
         ELSE <<>>

(* _save_to_manifest appends one line                                      *)
SaveToManifest(lines, path) == Append(lines, path)

StoreInit ==
    /\ DeepQueryIdle
    /\ ParserIdle
    /\ StoreIdle

(* store is called: the manifest is loaded and the files to index chosen   *)
StoreBegin ==
    /\ storePc \in {"idle", "returned"}
    /\ storeCalls < MaxStoreCalls
    /\ \E path \in StorePaths, force \in BOOLEAN :
         /\ storePath' = path
         /\ storeForce' = force
         /\ audio_files' = FilesToStore(path, LoadManifest(manifest), force)
    /\ storeBefore' = manifest
    /\ storeLog' = <<>>
    /\ storeCalls' = storeCalls + 1
    /\ storePc' = "storing"
    /\ UNCHANGED <<manifest, deepQueryVars, parserVars, earlier>>

(* result = self._run_command('store', ...); if result: _save_to_manifest  *)
StoreFile ==
    /\ storePc = "storing"
    /\ audio_files # <<>>
    /\ \E o \in RunOutcomes :
         IF o = "hang"
         THEN /\ storePc' = "blocked"
              /\ UNCHANGED <<manifest, audio_files, storeLog>>
         ELSE /\ storeLog' = Append(storeLog, [path |-> Head(audio_files),
                                                ok |-> (o = "ok")])
              /\ manifest' = IF o = "ok"
                             THEN SaveToManifest(manifest, Head(audio_files))
                             ELSE manifest
              /\ audio_files' = Tail(audio_files)
              /\ UNCHANGED storePc
    /\ UNCHANGED <<storePath, storeForce, storeBefore, storeCalls,
                   deepQueryVars, parserVars, earlier>>

(* store returns                                                           *)
StoreReturn ==
    /\ storePc = "storing"
    /\ audio_files = <<>>
    /\ storePc' = "returned"
    /\ UNCHANGED <<manifest, storePath, storeForce, audio_files, storeBefore,
                   storeLog, storeCalls, deepQueryVars, parserVars, earlier>>

StoreNext ==
    \/ StoreBegin
    \/ StoreFile
    \/ StoreReturn

StoreSpec == StoreInit /\ [][StoreNext]_vars

-----------------------------------------------------------------------------
(* deep_query with any overlap the command line hands over: main turns     *)
(* --segment and --overlap into integers and passes them on as they are,   *)
(* and deep_query does not compare them.  The segmenter loop is followed   *)
(* for LoopCap iterations, more than any file of the model needs with a    *)
(* positive step.                                                          *)

LoopCap == MaxWindows + 1

AnyOverlapInit ==
    /\ pc = "start"
    /\ fileDuration \in 0..MaxDuration
    /\ segment_length \in 1..MaxSegLen
    /\ overlap \in 0..MaxSegLen
    /\ overlap < segment_length =>
         IterationsFrom(0, fileDuration, segment_length, overlap) <= MaxWindows
    /\ min_segments \in MinSegmentsChoices
    /\ duration = NoDuration
    /\ start = 0
    /\ segment_num = 0
    /\ segments = <<>>
    /\ scratch = {}
    /\ qi = 0
    /\ all_matches = <<>>
    /\ ret = "pending"
    /\ results = <<>>
    /\ extractLog = <<>>
    /\ queryLog = <<>>
    /\ ParserIdle
    /\ earlier = NoEarlier
    /\ StoreIdle

CappedExtractSegment ==
    /\ Len(extractLog) < LoopCap
    /\ ExtractSegment

AnyOverlapNext ==
    \/ CheckQueryFile
    \/ CheckFfprobe
    \/ ProbeDuration
    \/ EnterSegmenter
    \/ CappedExtractSegment
    \/ SegmenterReturns
    \/ QuerySegment
    \/ Rank

AnyOverlapSpec == AnyOverlapInit /\ [][AnyOverlapNext]_vars

-----------------------------------------------------------------------------
(* _parse_query_output called on its own, on every text of at most         *)
(* MaxParseLines lines of one point query.                                 *)

(* A library file whose name holds the piece the parser tests for.         *)
PathSeg == <<"/music/", "segment_", "b.wav">>

(* How a line departs from a full data line, in at most one way.           *)
LineFormats ==
    {"full", "ten", "nine", "nodigit", "badscore", "badstart", "blankstart",
     "badstop"}

LineOf(fmt, q, m) ==
    [lead   |-> IF fmt = "nodigit" THEN "other" ELSE "digit",
     nparts |-> IF fmt = "ten" THEN 10 ELSE IF fmt = "nine" THEN 9 ELSE 13,
     qpath  |-> q,
     mpath  |-> m,
     score  |-> IF fmt = "badscore" THEN BadField ELSE NumField(1),
     mstart |-> IF fmt = "badstart" THEN BadField
                ELSE IF fmt = "blankstart" THEN BlankField ELSE NumField(0),
     mstop  |-> IF fmt = "badstop" THEN BadField ELSE NumField(0)]

(* The file queried: a clip of a deep query, or a library file.            *)
QueryPaths == {ClipPath(0), PathA}

MatchPaths == {ClipPath(0), ClipPath(1), PathA, PathSeg}

LinesFor(q) == {LineOf(fmt, q, m) : fmt \in LineFormats, m \in MatchPaths}

TextsFor(q) == UNION {[1..n -> LinesFor(q)] : n \in 0..MaxParseLines}

ParserInit ==
    /\ DeepQueryIdle
    /\ StoreIdle
    /\ parserPc = "call"
    /\ \E q \in QueryPaths : parserInput \in TextsFor(q)
    /\ parserResult = <<>>

(* matches = self._parse_query_output(output)                              *)
ParseOutput ==
    /\ parserPc = "call"
    /\ IF ParserEscapes(parserInput)
       THEN /\ parserPc' = "raised"
            /\ UNCHANGED parserResult
       ELSE /\ parserPc' = "returned"
            /\ parserResult' = ParseQueryOutput(parserInput)
    /\ UNCHANGED <<parserInput, deepQueryVars, earlier, storeVars>>

ParserNext == ParseOutput

ParserSpec == ParserInit /\ [][ParserNext]_vars

-----------------------------------------------------------------------------
(* Properties                                                              *)

ResultIndex(path) ==
    IF \E i \in 1..Len(results) : results[i].path = path
    THEN CHOOSE i \in 1..Len(results) : results[i].path = path
    ELSE 0

(* The records of queryLog that reference a candidate, as (window, place)  *)
Refs(path) ==
    {wk \in (1..Len(queryLog)) \X (1..MaxRecords) :
        /\ wk[2] <= Len(queryLog[wk[1]].matches)
        /\ queryLog[wk[1]].matches[wk[2]].path = path}

RECURSIVE ScoreSum(_)
ScoreSum(refs) ==
    IF refs = {} THEN 0
    ELSE LET r == CHOOSE x \in refs : TRUE
         IN  queryLog[r[1]].matches[r[2]].score + ScoreSum(refs \ {r})

SeenPaths ==
    {PathA, PathB} \cup {all_matches[k].path : k \in 1..Len(all_matches)}

(* C1: the list deep_query returns holds no candidate whose hit count is   *)
(* below min_segments, every entry carries its candidate's accumulated     *)
(* count and score, and of two entries the earlier has the larger hit      *)
(* count or, at equal hit counts, a total score at least as large.         *)
C1_FilteredAndOrdered ==
    ret = "list" =>
      /\ \A k \in 1..Len(all_matches) :
           all_matches[k].count < min_segments => ResultIndex(all_matches[k].path) = 0
      /\ \A i \in 1..Len(results) :
           /\ results[i].segment_count >= min_segments
           /\ \E k \in 1..Len(all_matches) :
                /\ all_matches[k].path = results[i].path
                /\ all_matches[k].count = results[i].segment_count
                /\ all_matches[k].total_score = results[i].total_score
      /\ \A i, j \in 1..Len(results) :
           i < j =>
             \/ results[i].segment_count > results[j].segment_count
             \/ /\ results[i].segment_count = results[j].segment_count
                /\ results[i].total_score >= results[j].total_score

(* A returned list of two candidates in which the sort moved the candidate *)
(* observed second, with the larger hit count, to the front.               *)
C1_Witness ==
    /\ ret = "list"
    /\ Len(results) = 2
    /\ results[1].segment_count > results[2].segment_count
    /\ all_matches[1].path = results[2].path

(* C2: the hit count of every candidate is the number of records the       *)
(* parser returned for it over all queried windows, several records of one *)
(* window counting each, and its total score is the sum of their scores;   *)
(* a candidate without records has no entry.  It holds after every window, *)
(* so also once all windows are processed.                                 *)
C2_CountsAllRecords ==
    \A p \in SeenPaths :
      LET k == IndexOf(all_matches, p) IN
        IF k = 0 THEN Refs(p) = {}
        ELSE /\ all_matches[k].count = Cardinality(Refs(p))
             /\ all_matches[k].total_score = ScoreSum(Refs(p))
             /\ Len(all_matches[k].segments) = Cardinality(Refs(p))

(* All windows processed, one of them with two records of a candidate that *)
(* another window reported too.                                            *)
C2_Witness ==
    /\ ret = "list"
    /\ \E w, v \in 1..Len(queryLog) :
         /\ w # v
         /\ Len(queryLog[w].matches) = 2
         /\ queryLog[w].matches[1].path = queryLog[w].matches[2].path
         /\ Len(queryLog[v].matches) >= 1
         /\ queryLog[v].matches[1].path = queryLog[w].matches[1].path

(* C3: in every returned entry the spans are non-empty, ascending by start *)
(* and pairwise disjoint, and consecutive spans lie more than `overlap`    *)
(* apart: next.start > previous.end + overlap.                             *)
C3_SpansSortedDisjointApart ==
    ret = "list" =>
      \A i \in 1..Len(results) :
        LET tr == results[i].time_ranges IN
          /\ Len(tr) >= 1
          /\ \A a \in 1..Len(tr) : tr[a][1] < tr[a][2]
          /\ \A a, b \in 1..Len(tr) :
               a < b => tr[a][1] < tr[b][1] /\ tr[a][2] < tr[b][1]
          /\ \A a \in 1..(Len(tr) - 1) : tr[a + 1][1] > tr[a][2] + overlap

(* A returned entry with two spans.                                        *)
C3_Witness ==
    /\ ret = "list"
    /\ \E i \in 1..Len(results) : Len(results[i].time_ranges) >= 2

Hit(s, e) == [start |-> s, end |-> e, score |-> 1]

(* C4: a returned candidate with exactly two hits [s1,e1], [s2,e2],        *)
(* s1 <= s2, has the single span [s1, max(e1,e2)] when s2 <= e1 + overlap  *)
(* and the two spans [s1,e1], [s2,e2] otherwise; [0,15], [13,28] with      *)
(* overlap 2 merge to [0,28]; [0,15], [20,35] with overlap 2 stay apart.   *)
C4_TwoHitsMerge ==
    /\ ret = "list" =>
         \A i \in 1..Len(results) :
           LET hits == all_matches[IndexOf(all_matches, results[i].path)].segments IN
             Len(hits) = 2 =>
               /\ hits[1].start <= hits[2].start
               /\ results[i].time_ranges =
                    IF hits[2].start <= hits[1].end + overlap
                    THEN << <<hits[1].start, Max(hits[1].end, hits[2].end)>> >>
                    ELSE << <<hits[1].start, hits[1].end>>,
                            <<hits[2].start, hits[2].end>> >>
    /\ TimeRanges(<<Hit(0, 15), Hit(13, 28)>>, 2) = << <<0, 28>> >>
    /\ TimeRanges(<<Hit(0, 15), Hit(20, 35)>>, 2) = << <<0, 15>>, <<20, 35>> >>

(* A returned candidate whose two hits are windows with a gap between      *)
(* them that the overlap tolerance bridges.                                *)
C4_Witness ==
    /\ ret = "list"
    /\ \E i \in 1..Len(results) :
         LET hits == all_matches[IndexOf(all_matches, results[i].path)].segments IN
           /\ Len(hits) = 2
           /\ hits[2].start > hits[1].end
           /\ Len(results[i].time_ranges) = 1

(* C5: no window emitted by the segmenter is shorter than 3 seconds.       *)
C5_NoShortWindow ==
    \A i \in 1..Len(segments) : segments[i][3] - segments[i][2] >= MinWindow

(* The segmenter returned windows after breaking out of the loop on a      *)
(* tail shorter than 3 seconds.                                            *)
C5_Witness ==
    /\ pc = "query"
    /\ Len(segments) >= 1
    /\ start < duration
    /\ WindowEnd(start, duration) - start < MinWindow

(* The ffmpeg calls that failed for a window starting strictly between two *)
(* times.                                                                  *)
FailedBetween(a, b) ==
    {k \in 1..Len(extractLog) :
        ~extractLog[k].ok /\ a < extractLog[k].start /\ extractLog[k].start < b}

Extracted == {k \in 1..Len(extractLog) : extractLog[k].ok}

(* C6, as claimed: whatever the extraction calls did, the starts of        *)
(* consecutive returned windows differ by exactly segment_length - overlap,*)
(* except possibly the last pair.                                          *)
C6_AsClaimed ==
    pc = "query" =>
      \A i \in 1..(Len(segments) - 2) :
        segments[i + 1][2] - segments[i][2] = Step

(* C6, amended: the starts of consecutive returned windows differ by       *)
(* (k + 1) * (segment_length - overlap), k the number of windows between   *)
(* them whose extraction failed; so by exactly segment_length - overlap    *)
(* when no extraction between them failed, the last pair included.         *)
C6_StepTimesDropped ==
    \A i \in 1..(Len(segments) - 1) :
      segments[i + 1][2] - segments[i][2] =
        Step * (1 + Cardinality(FailedBetween(segments[i][2], segments[i + 1][2])))

(* Three windows returned, the extraction of a window between the first    *)
(* two having failed.                                                      *)
C6_Witness ==
    /\ pc = "query"
    /\ Len(segments) >= 3
    /\ FailedBetween(segments[1][2], segments[2][2]) # {}
    /\ FailedBetween(segments[2][2], segments[3][2]) = {}

C8_AsClaimed ==
    /\ \A w \in 1..Len(queryLog) : ~queryLog[w].ok => queryLog[w].matches = <<>>
    /\ ret = "list" => Len(queryLog) = Len(segments)
    /\ pc # "blocked"

(* C9, as claimed: a failed extraction, the tool not starting included,    *)
(* drops the window, leaves it out of total_segments, and surfaces no      *)
(* error; with a window extracted deep_query ends with a list.             *)
C9_AsClaimed ==
    /\ Len(segments) = Cardinality(Extracted)
    /\ ret = "list" =>
         \A i \in 1..Len(results) : results[i].total_segments = Cardinality(Extracted)
    /\ ret # "raised"
    /\ (pc = "done" /\ Extracted # {}) => ret = "list"

(* C10: when deep_query has ended, by a return or by an exception, no clip *)
(* is left in its temporary directory.                                     *)
C10_ScratchReleased ==
    pc = "done" => scratch = {}

(* deep_query ended by an exception of the segmenter after clips had been  *)
(* written.                                                                *)
C10_Witness ==
    /\ pc = "done"
    /\ ret = "raised"
    /\ Len(segments) >= 1
    /\ scratch = {}

-----------------------------------------------------------------------------
(* C11.  A valid data line has a digit first, the fields the parser reads  *)
(* (ten parts or more), an integer score and a match start and stop that   *)
(* are numbers or blank.  Self-matches are counted first, scratch lines    *)
(* among the valid lines that are left.                                    *)

C11_Valid(l) ==
    /\ l.lead = "digit"
    /\ l.nparts >= 10
    /\ l.score.kind = "num"
    /\ l.mstart.kind \in {"num", "blank"}
    /\ l.mstop.kind \in {"num", "blank"}

C11_Self(l) == l.mpath = l.qpath

C11_ScratchName(l) ==
    Contains(l.mpath, "/panako_deep_") \/ Contains(l.mpath, "segment_")

C11_Lines(P(_)) == {i \in 1..Len(parserInput) : P(parserInput[i])}

C11_ValidSelf(l) == C11_Valid(l) /\ C11_Self(l)

C11_ValidScratch(l) == C11_Valid(l) /\ ~C11_Self(l) /\ C11_ScratchName(l)

(* The match path is a clip of a deep-query scratch directory.             *)
C11_ScratchClip(l) ==
    Contains(l.mpath, "/panako_deep_") /\ Contains(l.mpath, "segment_")

C11_ValidClip(l) == C11_Valid(l) /\ ~C11_Self(l) /\ C11_ScratchClip(l)

(* C11, as claimed: for every text of a point query the parser returns,    *)
(* without raising, as many records as the text has valid data lines, less *)
(* the self-match lines, less the lines of scratch clips; no record comes  *)
(* from a line whose score is not an integer.                              *)
C11_AsClaimed ==
    /\ parserPc # "raised"
    /\ parserPc = "returned" =>
         /\ Len(parserResult) =
              Cardinality(C11_Lines(C11_Valid))
                - Cardinality(C11_Lines(C11_ValidSelf))
                - Cardinality(C11_Lines(C11_ValidClip))
         /\ \A k \in 1..Len(parserResult) :
              \E i \in 1..Len(parserInput) :
                  /\ parserInput[i].score.kind = "num"
                  /\ parserResult[k].path = parserInput[i].mpath

(* C11 with the scratch lines taken as the parser takes them, by the name  *)
(* pieces in the match path: the count then holds for every text, no       *)
(* record comes from a line whose score is not an integer, and nothing is  *)
(* raised.                                                                 *)
C11_RecordCount ==
    /\ parserPc # "raised"
    /\ parserPc = "returned" =>
         /\ Len(parserResult) =
              Cardinality(C11_Lines(C11_Valid))
                - Cardinality(C11_Lines(C11_ValidSelf))
                - Cardinality(C11_Lines(C11_ValidScratch))
         /\ \A k \in 1..Len(parserResult) :
              \E i \in 1..Len(parserInput) :
                  /\ parserInput[i].score.kind = "num"
                  /\ parserResult[k].path = parserInput[i].mpath
                  /\ parserResult[k].score = parserInput[i].score.v

(* A line with a non-integer score, then a valid line of a library file:   *)
(* the parser returned the one record of the second line.                  *)
C11_Witness ==
    /\ parserPc = "returned"
    /\ Len(parserInput) = 2
    /\ parserInput[1].lead = "digit"
    /\ parserInput[1].score.kind = "bad"
    /\ C11_Valid(parserInput[2])
    /\ Len(parserResult) = 1
    /\ parserResult[1].path = PathA

-----------------------------------------------------------------------------
(* C12, as claimed: every external call of deep_query is bounded by a      *)
(* timeout, so no call keeps deep_query for ever: in every state deep_query *)
(* has ended or has a next step to take.                                   *)
C12_AsClaimed == pc # "done" => ENABLED Next

-----------------------------------------------------------------------------
(* C13, as claimed: windows are handled one at a time from extraction to   *)
(* aggregation, so when the extraction of a further window is about to     *)
(* begin, every window extracted before it has been queried.               *)
C13_AsClaimed ==
    (pc = "segment" /\ LoopContinues(start, duration)) =>
        Len(queryLog) = Len(segments)

(* The hits aggregated so far, over all candidates.                        *)
C13_HitsAggregated ==
    SumSeq([i \in 1..Len(all_matches) |-> Len(all_matches[i].segments)])

(* C13, amended: all windows are extracted before the first point query;   *)
(* the windows are then queried one at a time in the order of extraction,  *)
(* and when a window's query is about to begin the records of every        *)
(* window before it, and of no other, have been aggregated.                *)
C13_ExtractAllThenQueryInTurn ==
    /\ pc = "segment" => queryLog = <<>> /\ all_matches = <<>>
    /\ pc \in {"query", "blocked"} =>
         /\ ~LoopContinues(start, duration)
         /\ Len(queryLog) = qi
         /\ qi <= Len(segments)
         /\ C13_HitsAggregated = RecordsSoFar
         /\ \A i \in 1..Len(all_matches) :
              \A k \in 1..Len(all_matches[i].segments) :
                \E w \in 1..qi :
                    /\ all_matches[i].segments[k].start = segments[w][2]
                    /\ all_matches[i].segments[k].end = segments[w][3]
    /\ \A w \in 1..(Len(segments) - 1) : segments[w][2] < segments[w + 1][2]

(* Two windows were extracted, the first has been queried and its record   *)
(* aggregated, the second has not been queried yet.                        *)
C13_Witness ==
    /\ pc = "query"
    /\ Len(segments) >= 2
    /\ qi = 1
    /\ all_matches # <<>>

-----------------------------------------------------------------------------
(* C14.  Two candidates of the returned list with the same segment_count   *)
(* and the same total_score stand in the order in which the engine first   *)
(* reported them (window by window, record by record).                     *)

(* The place of the first record that references a candidate.              *)
C14_FirstSeen(path) ==
    LET place(wk) == wk[1] * (MaxRecords + 1) + wk[2]
    IN  CHOOSE n \in {place(wk) : wk \in Refs(path)} :
            \A wk \in Refs(path) : n <= place(wk)

C14_TiesKeepFirstSeenOrder ==
    ret = "list" =>
        \A i, j \in 1..Len(results) :
            (/\ i < j
             /\ results[i].segment_count = results[j].segment_count
             /\ results[i].total_score = results[j].total_score)
            => C14_FirstSeen(results[i].path) < C14_FirstSeen(results[j].path)

(* b.wav was reported before a.wav, both ended with the same count and     *)
(* score, and b.wav stands first in the list.                              *)
C14_Witness ==
    /\ ret = "list"
    /\ Len(results) = 2
    /\ results[1].path = PathB
    /\ results[2].path = PathA
    /\ results[1].segment_count = results[2].segment_count
    /\ results[1].total_score = results[2].total_score

-----------------------------------------------------------------------------
(* C15.  On a 40-second file with segment_length 15 and overlap 2, when    *)
(* every extraction succeeds the windows are [0,15], [13,28], [26,40]; if  *)
(* the three windows then yield one record each of the same candidate with *)
(* scores 10, 8 and 12, the list holds that candidate with segment_count   *)
(* 3, total_segments 3, total_score 30, percentage 100 and the one time    *)
(* range [0,40].                                                           *)

C15_AllExtracted == \A k \in 1..Len(extractLog) : extractLog[k].ok

C15_OneRecordEach ==
    /\ Len(queryLog) = Len(ScenarioScores)
    /\ \A w \in 1..Len(queryLog) :
         /\ Len(queryLog[w].matches) = 1
         /\ queryLog[w].matches[1].path = PathA
         /\ queryLog[w].matches[1].score = ScenarioScores[w]

C15_Scenario ==
    /\ (pc \in {"query", "blocked"} \/ ret = "list") /\ C15_AllExtracted =>
         segments = << <<0, 0, 15>>, <<1, 13, 28>>, <<2, 26, 40>> >>
    /\ (ret = "list" /\ C15_AllExtracted /\ C15_OneRecordEach) =>
         /\ Len(results) = 1
         /\ results[1].path = PathA
         /\ results[1].segment_count = 3
         /\ results[1].total_segments = 3
         /\ results[1].total_score = 30
         /\ results[1].percentage.num = 100 * results[1].percentage.den
         /\ results[1].time_ranges = << <<0, 40>> >>

(* The scenario has run to its end.                                        *)
C15_Witness ==
    /\ ret = "list"
    /\ C15_AllExtracted
    /\ C15_OneRecordEach
    /\ Len(segments) = 3
    /\ Len(results) = 1

-----------------------------------------------------------------------------
(* C16.  A second deep_query call starts its queries with an empty         *)
(* candidate map, and when it extracts the same windows and the engine     *)
(* reports the same records for them as in the first call, it returns the  *)
(* same list as the first call.                                            *)
C16_SecondCallIndependent ==
    /\ (pc = "query" /\ qi = 0) => all_matches = <<>>
    /\ pc = "query" => C13_HitsAggregated = RecordsSoFar
    /\ (/\ earlier.ret = "list"
        /\ ret = "list"
        /\ segments = earlier.segments
        /\ queryLog = earlier.queryLog) => results = earlier.results

(* Both calls ended with the same non-empty list, from the same windows    *)
(* and records.                                                            *)
C16_Witness ==
    /\ earlier.ret = "list"
    /\ ret = "list"
    /\ segments = earlier.segments
    /\ queryLog = earlier.queryLog
    /\ Len(segments) = 2
    /\ results # <<>>
    /\ results = earlier.results

-----------------------------------------------------------------------------
(* C17.  When the duration of the file is 0, the segmenter makes no        *)
(* extraction and returns no window, no query is made, and deep_query      *)
(* ends with None, not with a list.                                        *)
C17_ZeroDuration ==
    duration = 0 =>
        /\ extractLog = <<>>
        /\ segments = <<>>
        /\ pc \notin {"query", "blocked"}
        /\ queryLog = <<>>
        /\ pc = "done" => ret = "None" /\ results = <<>>

(* deep_query has ended on a file of duration 0, both probes having        *)
(* answered.                                                               *)
C17_Witness ==
    /\ fileDuration = 0
    /\ duration = 0
    /\ pc = "done"
    /\ ret = "None"

-----------------------------------------------------------------------------
(* C18.  A store call without force on a file that is in the manifest      *)
(* makes no engine invocation and leaves the manifest as it was; a store   *)
(* call with force on a file has invoked the engine for it when it         *)
(* returns; and in every store call the manifest is what it was at the     *)
(* call plus, in order, the files whose engine invocation succeeded.       *)

RECURSIVE C18_Stored(_)
C18_Stored(log) ==
    IF log = <<>> THEN <<>>
    ELSE IF Head(log).ok
         THEN <<Head(log).path>> \o C18_Stored(Tail(log))
         ELSE C18_Stored(Tail(log))

C18_StoreSkipsAndRecords ==
    storePc \in {"storing", "blocked", "returned"} =>
        /\ (/\ KindOf(storePath) = "file"
            /\ storePath \in LoadManifest(storeBefore)
            /\ ~storeForce) =>
              /\ storeLog = <<>>
              /\ audio_files = <<>>
              /\ storePc # "blocked"
              /\ manifest = storeBefore
        /\ (/\ KindOf(storePath) = "file"
            /\ storeForce
            /\ storePc = "returned") =>
              /\ Len(storeLog) = 1
              /\ storeLog[1].path = storePath
        /\ manifest = storeBefore \o C18_Stored(storeLog)

(* A store call without force on an indexed file has returned.             *)
C18_Witness ==
    /\ storePc = "returned"
    /\ storePath = PathA
    /\ ~storeForce
    /\ PathA \in LoadManifest(storeBefore)
    /\ storeLog = <<>>
    /\ manifest = storeBefore

-----------------------------------------------------------------------------
(* C19.  With duration >= 0, segment_length > 0 and 0 <= overlap <         *)
(* segment_length, every iteration of the segmenter loop is entered with   *)
(* start < duration and raises start by segment_length - overlap, which is *)
(* positive; and the loop, once entered, comes to an end.                  *)
C19_SegmenterLoopEnds ==
    /\ [][(pc = "segment" /\ pc' = "segment") =>
            /\ start < duration
            /\ start' = start + (segment_length - overlap)
            /\ start' > start]_vars
    /\ (pc = "segment") ~> (pc # "segment")

(* The loop has ended by reaching a final piece shorter than 3 seconds,    *)
(* after two iterations or more.                                           *)
C19_Witness ==
    /\ pc = "query"
    /\ Len(extractLog) >= 2
    /\ start < duration
    /\ qi = 0

-----------------------------------------------------------------------------
-----------------------------------------------------------------------------
(* C21, as claimed: in the list deep_query returns, every entry has a      *)
(* segment_count of at most total_segments, that is a percentage of at     *)
(* most 100, also when a window reports several records of one candidate.  *)
C21_AsClaimed ==
    ret = "list" =>
        \A i \in 1..Len(results) :
            /\ results[i].segment_count <= results[i].total_segments
            /\ results[i].percentage.num <= 100 * results[i].percentage.den

-----------------------------------------------------------------------------
(* C22.  Time points are taken in half seconds, all window bounds being    *)
(* whole seconds.                                                          *)

(* The windows in which the engine reported a candidate.                   *)
C22_HitWindows(path) ==
    {w \in 1..Len(queryLog) :
        \E k \in 1..Len(queryLog[w].matches) : queryLog[w].matches[k].path = path}

C22_InHitWindow(path, t2) ==
    \E w \in C22_HitWindows(path) :
        2 * segments[w][2] <= t2 /\ t2 <= 2 * segments[w][3]

(* t2 lies between two hit windows of the candidate that are at most       *)
(* `overlap` seconds apart.                                                *)
C22_InBridgedGap(path, t2) ==
    \E v, w \in C22_HitWindows(path) :
        /\ 2 * segments[v][3] < t2
        /\ t2 < 2 * segments[w][2]
        /\ segments[w][2] - segments[v][3] <= overlap

C22_SpanPoints(r) ==
    {<<k, t2>> \in (1..Len(r.time_ranges)) \X (0..(2 * MaxDuration)) :
        2 * r.time_ranges[k][1] <= t2 /\ t2 <= 2 * r.time_ranges[k][2]}

(* C22, as claimed: every time point of a time range reported for a        *)
(* candidate lies in a window in which the candidate was hit.              *)
C22_AsClaimed ==
    ret = "list" =>
        \A i \in 1..Len(results) :
            \A p \in C22_SpanPoints(results[i]) :
                C22_InHitWindow(results[i].path, p[2])

(* C22, amended: every time point of a time range reported for a candidate *)
(* lies in a window in which the candidate was hit, or in a gap of at most *)
(* `overlap` seconds between two such windows; and every range starts at   *)
(* the start of a hit window and ends at the end of one.                   *)
C22_SpanWithinHitsAndBridges ==
    ret = "list" =>
        \A i \in 1..Len(results) :
            /\ \A p \in C22_SpanPoints(results[i]) :
                 \/ C22_InHitWindow(results[i].path, p[2])
                 \/ C22_InBridgedGap(results[i].path, p[2])
            /\ \A k \in 1..Len(results[i].time_ranges) :
                 \E v, w \in C22_HitWindows(results[i].path) :
                     /\ results[i].time_ranges[k][1] = segments[v][2]
                     /\ results[i].time_ranges[k][2] = segments[w][3]

(* A returned range covers a gap between two hit windows: a point of it    *)
(* lies in no window with a hit.                                           *)
C22_Witness ==
    /\ ret = "list"
    /\ \E i \in 1..Len(results) :
         \E p \in C22_SpanPoints(results[i]) :
             /\ ~C22_InHitWindow(results[i].path, p[2])
             /\ C22_InBridgedGap(results[i].path, p[2])

-----------------------------------------------------------------------------
(* C23, as claimed: the segmenter loop ends for every segment_length and   *)
(* overlap handed over.  A loop that ends raises start from 0 by a whole   *)
(* number of seconds at every iteration and stops before start reaches     *)
(* duration, so whenever its body is about to run again it has run fewer   *)
(* times than the file has seconds.                                        *)
C23_AsClaimed ==
    (pc = "segment" /\ LoopContinues(start, duration)) =>
        Len(extractLog) < duration

-----------------------------------------------------------------------------
(* C24, as claimed: a valid data line whose match path is a file of the    *)
(* library, not the file queried, yields a record, whatever the name of    *)
(* the library file; only clips of a scratch directory are dropped.        *)

(* The match paths of the model that are library files.                    *)
C24_LibraryPaths == {PathA, PathSeg}

C24_AsClaimed ==
    parserPc = "returned" =>
        \A i \in 1..Len(parserInput) :
            (/\ C11_Valid(parserInput[i])
             /\ parserInput[i].mpath \in C24_LibraryPaths
             /\ parserInput[i].mpath # parserInput[i].qpath)
            => \E k \in 1..Len(parserResult) :
                   parserResult[k].path = parserInput[i].mpath

=============================================================================
